---- MODULE Spec2Model ----
(***************************************************************************)
(* Test-taking session of the exam platform: the TestPage component        *)
(* (client/src/pages/test-page.tsx), its countdown and autosave timers,    *)
(* its session requests (load / create / save / complete / abandon), the   *)
(* submission mutation, the browser's local draft cache, and the session   *)
(* store behind /api/test-sessions.                                        *)
(*                                                                         *)
(* React semantics that the model keeps:                                   *)
(*  - a state setter that stores a different value (or a fresh object)     *)
(*    re-renders the component; an effect whose dependency changed first   *)
(*    runs its previous cleanup (with the closure of the previous render)  *)
(*    and then its body again;                                             *)
(*  - a setter that stores the identical value re-renders nothing;         *)
(*  - an await is a suspension point: the continuation keeps the values    *)
(*    its closure captured when the call started.                          *)
(***************************************************************************)
EXTENDS Integers, Sequences, FiniteSets, TLC

(* ------------------------------ bounds -------------------------------- *)

\* answer ids offered to handleAnswerSelect in the toggle runs
NumAnswers == 4

\* answer ids offered to the learner in the runs of the whole page
PageAnswers == 1

\* the countdown is followed for this many seconds below the full budget
\* and for this many seconds above zero
MaxTicks == 1

\* the same, in the runs that follow the autosave period
WindowTicks == 32

\* requests that may be in flight together
MaxShown == 2

MaxScore == 1

MaxResults == 2

MaxInFlight == 2

\* pending-sync records the offline store is followed for
MaxPending == 2

\* draft rows the session store keeps for one (user, variant) pair
MaxDrafts == 2

\* saturation of the request counters
CountCap == 2

(* ------------------------- program constants -------------------------- *)

\* useState(240 * 60): the fixed timer budget in seconds
Budget == 14400

\* setInterval(..., 30000) against the 1000 ms countdown: 30 seconds
AutosavePeriod == 30

\* "Добавляем ответ (максимум 3)"
MaxSelected == 3

\* the questions of the variant
QuestionPool == <<"q1", "q2">>

AnswerPool == <<"a1", "a2", "a3", "a4", "a5">>

QuestionIds == {QuestionPool[i] : i \in 1..Len(QuestionPool)}

AnswerIds == {AnswerPool[i] : i \in 1..NumAnswers}

PageQuestionIds == {QuestionPool[1]}

PageAnswerIds == {AnswerPool[i] : i \in 1..PageAnswers}

VARIABLES
  authed,          \* user?.id is present
  isPublicTest,    \* route /public-test/:variantId
  isReviewMode,    \* history.state.review / ?review=true, fixed at mount
  phase,           \* "init" | "mounted" | "unmounted"
  timeLeft,        \* useState(240 * 60)
  userAnswers,     \* useState<Record<string, string | string[]>>
  timerActive,     \* timerRef.current !== null
  intervals,       \* live setInterval timers of the countdown (saturating)
  autosaveElapsed, \* seconds since the autosave interval was (re)armed
  localStorage,    \* item test_${variantId}_answers: <<>> or <<json>>
  loads,           \* loadProgress runs waiting for the 'load' response
  creates,         \* loadProgress runs waiting for the 'create' response
  abandons,        \* 'abandon' requests in flight
  saves,           \* autosave ticks waiting for the 'save' response
  submits,         \* mutationFn runs waiting for POST test-results
  completes,       \* onSuccess runs waiting for the 'complete' response
  drafts,          \* session store: draft rows of the (user, variant) pair
  results,         \* TestResult rows stored for the pair
  pendingSync,     \* offline store: pending-sync records
  submitted,       \* history: mutationFn runs started (saturating)
  timeUps,         \* history: handleTimeUp calls scheduled (saturating)
  timeUpTimers,    \* setTimeout(handleTimeUp, 0) callbacks waiting: timeLeft before the tick
  completeSent,    \* history: a 'complete' request has been sent
  restored,        \* history: a draft has been restored into the page
  sinceSave,       \* history: seconds since mount or the last 'save' request
  lastSave,        \* history: the body of the 'save' request issued last, if any
  hist             \* history: what the last step did

vars == <<authed, isPublicTest, isReviewMode, phase, timeLeft, userAnswers,
          timerActive, intervals, autosaveElapsed, localStorage, loads, creates,
          abandons, saves, submits, completes, drafts, results, pendingSync,
          submitted, timeUps, timeUpTimers, completeSent, restored, sinceSave, lastSave, hist>>

config == <<authed, isPublicTest, isReviewMode>>

(* ------------------------------ helpers ------------------------------- *)

\* {} : an answers map without keys
NoAnswers == [q \in {} |-> <<>>]

Includes(arr, x) == \E i \in 1..Len(arr) : arr[i] = x

\* currentArray.filter(id => id !== answerId)
Without(arr, x) == SelectSeq(arr, LAMBDA y : y /= x)

\* { ...prev, [questionId]: arr }
Assign(prev, q, arr) ==
  [k \in (DOMAIN prev) \cup {q} |-> IF k = q THEN arr ELSE prev[k]]

\* JSON.stringify of an answers map: its members in key order, each key with
\* the array it holds
JSONstringify(m) == {<<k, m[k]>> : k \in DOMAIN m}

\* JSON.parse of such a text
JSONparse(t) ==
  [k \in {p[1] : p \in t} |-> (CHOOSE p \in t : p[1] = k)[2]]

Max(a, b) == IF a >= b THEN a ELSE b

Min(a, b) == IF a <= b THEN a ELSE b

RemoveAt(seq, i) == [j \in 1..(Len(seq) - 1) |-> IF j < i THEN seq[j] ELSE seq[j + 1]]

Sat(n) == IF n < CountCap THEN n + 1 ELSE n

Did(op) == [op |-> op, q |-> "", a |-> "", prev |-> NoAnswers]

(* --------------------------- handleAnswerSelect ------------------------ *)

\* handleAnswerSelect without the length test: a 4th id is added
handleAnswerSelectNoCap(prev, questionId, answerId) ==
  LET currentArray == IF questionId \in DOMAIN prev THEN prev[questionId] ELSE <<>>
  IN IF Includes(currentArray, answerId)
       THEN Assign(prev, questionId, Without(currentArray, answerId))
       ELSE Assign(prev, questionId, Append(currentArray, answerId))

\* handleAnswerSelect without the spread of prev: the other questions are dropped
handleAnswerSelectNoSpread(prev, questionId, answerId) ==
  LET currentArray == IF questionId \in DOMAIN prev THEN prev[questionId] ELSE <<>>
      newArray == Append(currentArray, answerId)
  IN IF Includes(currentArray, answerId)
       THEN Assign(NoAnswers, questionId, Without(currentArray, answerId))
       ELSE IF Len(newArray) <= MaxSelected
              THEN Assign(NoAnswers, questionId, newArray)
              ELSE prev

\* the updater passed to setUserAnswers; returns prev itself when a 4th id is
\* refused
handleAnswerSelect(prev, questionId, answerId) ==
  LET currentArray == IF questionId \in DOMAIN prev THEN prev[questionId] ELSE <<>>
      newArray == Append(currentArray, answerId)
  IN IF Includes(currentArray, answerId)
       THEN Assign(prev, questionId, Without(currentArray, answerId))
       ELSE IF Len(newArray) <= MaxSelected
              THEN Assign(prev, questionId, newArray)
              ELSE prev

(* ------------------------ manageTestSession guard ---------------------- *)

\* the guard without the test of isReviewMode
SessionEnabledInReview == authed

\* the guard without the test of user?.id
SessionEnabledForGuests == ~isReviewMode

\* if (!variantId || !user?.id || isReviewMode) return null
SessionEnabled == authed /\ ~isReviewMode

\* remaining time computed on restore
RestoredTimeLeft(timeSpent) == Max(0, Budget - timeSpent)

\* the remaining time sent in place of the time spent
TimeSpentAsTimeLeft(tl) == tl

\* (240 * 60) - timeLeft
TimeSpent(tl) == Budget - tl

(* ------------------------------- commit -------------------------------- *)

\* requests waiting for their response and time-up callbacks waiting to run
InFlight ==
  loads + creates + abandons + Len(saves) + Len(submits) + completes + Len(timeUpTimers)

\* What React does after a render in which timeLeft or userAnswers changed:
\* manageTestSession is a new function, so
\*   - the unmount-cleanup effect runs its previous cleanup, with the previous
\*     render's timeLeft: 'abandon' is requested and the local item removed;
\*   - the loadProgress effect runs again: 'load' is requested;
\*   - the autosave effect clears its interval and arms a new one.
\* ls and nLoads are the values those variables have before the commit, n is
\* the number of requests in flight before it.
Commit(changed, oldTimeLeft, ls, nLoads, n) ==
  LET live == changed /\ SessionEnabled
      abandon == live /\ oldTimeLeft > 0
      nAbandons == abandons
  IN /\ n + (IF live THEN 1 ELSE 0) + (IF abandon THEN 1 ELSE 0) <= MaxInFlight
     /\ loads' = IF live THEN nLoads + 1 ELSE nLoads
     /\ abandons' = IF abandon THEN nAbandons + 1 ELSE nAbandons
     /\ localStorage' = IF abandon THEN <<>> ELSE ls

\* timerStartedRef.current: set by the first run of the timer effect
TimerStarted == phase /= "init" /\ ~isReviewMode

\* the timer effect with timeLeft among its dependencies
TimerDepsChangedWithTimeLeft == isReviewMode' /= isReviewMode \/ timeLeft' /= timeLeft

\* The dependencies of the timer effect, [isReviewMode], differ between the
\* render before the step and the render after it.
TimerDepsChanged == isReviewMode' /= isReviewMode

\* The timer effect at a commit. ref and live are timerRef.current !== null and
\* the live intervals before the effects run. When the effect runs, its
\* previous cleanup clears the interval timerRef holds, and its body starts an
\* interval unless timerStartedRef is set or the page is in review mode.
TimerEffect(run, ref, live) ==
  LET cleared == IF ref THEN live - 1 ELSE live
  IN IF ~run
       THEN timerActive' = ref /\ intervals' = live
       ELSE IF TimerStarted \/ isReviewMode
              THEN timerActive' = FALSE /\ intervals' = cleared
              ELSE timerActive' = TRUE /\ intervals' = Min(cleared + 1, CountCap)

\* Unmounting: every effect's cleanup runs with the last render's closure.
Unmount(ls, n) ==
  LET abandon == SessionEnabled /\ timeLeft > 0
  IN /\ (abandon => n < MaxInFlight)
     /\ phase' = "unmounted"
     /\ timerActive' = FALSE
     /\ intervals' = IF timerActive THEN intervals - 1 ELSE intervals
     /\ autosaveElapsed' = 0
     /\ abandons' = IF abandon THEN abandons + 1 ELSE abandons
     /\ localStorage' = IF abandon THEN <<>> ELSE ls

(* --------------------------- result storage ---------------------------- *)

\* Rows of test_results have a generated id, the fields of the insert and
\* completedAt, the server's clock at the insert, which is followed as the
\* number of the insert.
Users == {"u1", "u2"}

InsertResults == [userId : Users, score : 0..MaxScore]

\* an insert that replaces the row the user already has
createTestResultUpsert(rows, insertResult) ==
  LET kept == SelectSeq(rows, LAMBDA r : r.userId /= insertResult.userId)
  IN Append(kept, [id |-> Len(rows) + 1, userId |-> insertResult.userId,
                   score |-> insertResult.score, completedAt |-> Len(rows) + 1])

createTestResult(rows, insertResult) ==
  Append(rows, [id |-> Len(rows) + 1, userId |-> insertResult.userId,
                score |-> insertResult.score, completedAt |-> Len(rows) + 1])

\* the row with the id as a sequence of at most one row (undefined is <<>>)
getTestResult(rows, id) == SelectSeq(rows, LAMBDA r : r.id = id)

getTestResultsByUser(rows, userId) == SelectSeq(rows, LAMBDA r : r.userId = userId)

RECURSIVE TotalScore(_)
TotalScore(rows) ==
  IF rows = <<>> THEN 0 ELSE Head(rows).score + TotalScore(Tail(rows))

getUserRanking(rows, userId) ==
  LET userResults == getTestResultsByUser(rows, userId)
  IN [userId |-> userId, totalScore |-> TotalScore(userResults),
      testsCompleted |-> Len(userResults)]

\* the row the result route inserts for the learner of the page; its scoring
\* is not followed in the page runs
PageInsert == [userId |-> "u1", score |-> 0]

\* the insert of the page runs, which follow CountCap rows
Stored(rows) ==
  IF Len(rows) < CountCap THEN createTestResult(rows, PageInsert) ELSE rows

(* -------------------------------- Init --------------------------------- *)

\* drafts the session store may hold from an earlier visit
SavedTimes == {Budget - MaxTicks, Budget}

SavedAnswers == [q \in PageQuestionIds |-> <<AnswerPool[1]>>]

Init ==
  /\ authed \in BOOLEAN
  /\ isPublicTest \in BOOLEAN
  /\ isReviewMode \in BOOLEAN
  /\ phase = "init"
  /\ timeLeft = Budget
  /\ userAnswers = IF isReviewMode THEN SavedAnswers ELSE NoAnswers
  /\ timerActive = FALSE
  /\ intervals = 0
  /\ autosaveElapsed = 0
  /\ localStorage \in {<<>>, <<JSONstringify(SavedAnswers)>>}
  /\ loads = 0
  /\ creates = 0
  /\ abandons = 0
  /\ saves = <<>>
  /\ submits = <<>>
  /\ completes = 0
  /\ drafts \in {<<>>} \cup
       {<<[answers |-> SavedAnswers, timeSpent |-> t, sid |-> 1]>> : t \in SavedTimes}
  /\ results = <<>>
  /\ pendingSync = <<>>
  /\ submitted = 0
  /\ timeUps = 0
  /\ timeUpTimers = <<>>
  /\ completeSent = FALSE
  /\ restored = FALSE
  /\ sinceSave = 0
  /\ lastSave = <<>>
  /\ hist = Did("")

(* ------------------------------- Mount --------------------------------- *)

\* first render and first run of the effects
Mount ==
  /\ phase = "init"
  /\ phase' = "mounted"
  /\ TimerEffect(TRUE, FALSE, 0)
  /\ loads' = IF SessionEnabled THEN 1 ELSE 0
  /\ UNCHANGED <<config, timeLeft, userAnswers, autosaveElapsed, localStorage,
                 creates, abandons, saves, submits, completes, drafts, results,
                 pendingSync, submitted, timeUps, timeUpTimers, completeSent, restored, sinceSave, lastSave, hist>>

(* ----------------------------- countdown ------------------------------- *)

\* the updater without the floor at zero
NextTimeLeftNoFloor(prev) == prev - 1

\* prev <= 1 ? 0 : prev - 1
NextTimeLeft(prev) == IF prev <= 1 THEN 0 ELSE prev - 1

\* the autosave interval is armed while the page is mounted for a signed-in
\* learner outside review mode
AutosaveArmed == phase = "mounted" /\ SessionEnabled

AutosaveDue == AutosaveArmed /\ autosaveElapsed >= AutosavePeriod

\* a mutationFn run: the answers handed to mutate and the timeSpent of the
\* closure
Submission(answers, tl) == [answers |-> answers, timeSpent |-> TimeSpent(tl)]

\* React evaluates a state updater once, or twice when it replays the render
UpdaterEvals == {1, 2}

\* the updater scheduling handleTimeUp on every evaluation that reaches zero
TimeUpCallsNoRefCheck(newValue, ref, evals) == IF newValue = 0 THEN evals ELSE 0

\* How many times the updater schedules handleTimeUp over its evaluations:
\* if (newValue === 0 && timerRef.current) clears timerRef on the first one.
TimeUpCalls(newValue, ref, evals) == IF newValue = 0 /\ ref THEN 1 ELSE 0

\* seq followed by n copies of x
AppendTimes(seq, x, n) == seq \o [i \in 1..n |-> x]

\* n steps of the saturating counter
SatBy(c, n) == Min(c + n, CountCap)

\* The setInterval callback of the timer effect and the render that follows;
\* at zero the updater schedules handleTimeUp. window bounds how far the countdown is followed;
\* track says whether the step counts the seconds since the last save.
Tick(window, track) ==
  /\ phase = "mounted"
  /\ timerActive
  /\ ~AutosaveDue
  /\ timeLeft > Budget - window \/ timeLeft <= MaxTicks
  /\ LET newValue == NextTimeLeft(timeLeft)
         changed == newValue /= timeLeft
         timeUp == newValue = 0
     IN /\ timeLeft' = newValue
        /\ autosaveElapsed' = IF changed \/ ~SessionEnabled THEN 0 ELSE autosaveElapsed + 1
        /\ \E evals \in UpdaterEvals :
             LET calls == TimeUpCalls(newValue, timerActive, evals)
             IN /\ \* setTimeout(() => handleTimeUpRef.current?.(), 0)
                   timeUpTimers' = AppendTimes(timeUpTimers, timeLeft, calls)
                /\ timeUps' = SatBy(timeUps, calls)
                /\ Commit(changed, timeLeft, localStorage, loads, InFlight + calls)
        /\ sinceSave' = IF track /\ sinceSave <= AutosavePeriod THEN sinceSave + 1 ELSE sinceSave
        /\ lastSave' = lastSave
  /\ UNCHANGED <<config, phase, userAnswers, creates, saves, submits, completes, drafts,
                 results, pendingSync, submitted, completeSent, restored, hist>>
  /\ LET timeUp == NextTimeLeft(timeLeft) = 0
     IN \* at zero the updater clears the interval and timerRef
        TimerEffect(TimerDepsChanged, ~timeUp,
                    IF timeUp THEN intervals - 1 ELSE intervals)

\* The timeout scheduled at zero runs handleTimeUpRef.current, which is
\* handleTimeUp: submitTestMutation.mutate(userAnswers). The mutationFn it
\* starts has the timeLeft of the render before the tick or of the last one,
\* as the effect that refreshes the ref may run before or after the timeout.
\* Nothing cancels the timeout, so it also runs after an unmount.
handleTimeUp ==
  /\ timeUpTimers /= <<>>
  /\ timeUpTimers' = Tail(timeUpTimers)
  /\ \E seen \in {Head(timeUpTimers), timeLeft} :
       submits' = Append(submits, Submission(userAnswers, seen))
  /\ submitted' = Sat(submitted)
  /\ UNCHANGED <<config, phase, timeLeft, userAnswers, timerActive, intervals,
                 autosaveElapsed, localStorage, loads, creates, abandons, saves,
                 completes, drafts, results, pendingSync, timeUps, completeSent,
                 restored, sinceSave, lastSave, hist>>

\* the countdown is stopped and the rest of the autosave period passes
Wait(track) ==
  /\ AutosaveArmed
  /\ ~timerActive
  /\ autosaveElapsed < AutosavePeriod
  /\ autosaveElapsed' = AutosavePeriod
  /\ sinceSave' = IF track
                    THEN Min(sinceSave + AutosavePeriod - autosaveElapsed, AutosavePeriod + 1)
                    ELSE sinceSave
  /\ lastSave' = lastSave
  /\ UNCHANGED <<config, phase, timeLeft, userAnswers, timerActive, intervals, localStorage,
                 loads, creates, abandons, saves, submits, completes, drafts,
                 results, pendingSync, submitted, timeUps, timeUpTimers, completeSent, restored, hist>>

(* ------------------------------ learner -------------------------------- *)

\* a click on an answer button: onClick={() => !isReviewMode && handleAnswerSelect(...)}
ToggleAnswer(qs, as, track) ==
  /\ phase = "mounted"
  /\ ~isReviewMode
  /\ \E q \in qs, a \in as :
       LET next == handleAnswerSelect(userAnswers, q, a)
       IN /\ userAnswers' = next
          /\ Commit(next /= userAnswers, timeLeft, localStorage, loads, InFlight)
          /\ autosaveElapsed' = IF next /= userAnswers THEN 0 ELSE autosaveElapsed
          /\ hist' = IF track
                       THEN [op |-> "toggle", q |-> q, a |-> a, prev |-> userAnswers]
                       ELSE hist
  /\ UNCHANGED <<config, phase, timeLeft, creates, saves, submits,
                 completes, drafts, results, pendingSync, submitted, timeUps, timeUpTimers, completeSent,
                 restored, sinceSave, lastSave>>
  /\ TimerEffect(TimerDepsChanged, timerActive, intervals)

\* confirmSubmitTest: setShowSubmitDialog(false); submitTestMutation.mutate(userAnswers)
confirmSubmitTest ==
  /\ phase = "mounted"
  /\ ~isReviewMode
  /\ InFlight < MaxInFlight
  /\ submits' = Append(submits, Submission(userAnswers, timeLeft))
  /\ submitted' = Sat(submitted)
  /\ UNCHANGED <<config, timeUps, timeUpTimers, phase, timeLeft, userAnswers, timerActive, intervals, autosaveElapsed,
                 localStorage, loads, creates, abandons, saves, completes, drafts,
                 results, pendingSync, completeSent, restored, sinceSave, lastSave, hist>>

\* the learner navigates away from the page
Leave ==
  /\ phase = "mounted"
  /\ Unmount(localStorage, InFlight)
  /\ UNCHANGED <<config, timeLeft, userAnswers, loads, creates, saves, submits,
                 completes, drafts, results, pendingSync, submitted, timeUps, timeUpTimers, completeSent,
                 restored, sinceSave, lastSave, hist>>

(* --------------------------- loadProgress ------------------------------ *)

\* What GET /api/test-sessions/active answers: the draft rows of the pair
\* (one of them is handed back), or nothing.
ActiveSessions == {drafts[i] : i \in 1..Len(drafts)}

\* manageTestSession('load') returns and loadProgress goes on.
LoadResponse ==
  /\ loads > 0
  /\ \/ \* a draft comes back: the draft is restored
        \E session \in ActiveSessions :
          IF phase = "mounted"
            THEN /\ userAnswers' = session.answers
                 /\ timeLeft' = RestoredTimeLeft(session.timeSpent)
                 /\ autosaveElapsed' = 0
                 /\ Commit(TRUE, timeLeft, localStorage, loads - 1, InFlight - 1)
                 /\ restored' = TRUE
                 /\ UNCHANGED creates
            ELSE /\ loads' = loads - 1
                 /\ UNCHANGED <<userAnswers, timeLeft, autosaveElapsed, localStorage,
                                abandons, creates, restored>>
     \/ \* no draft, an error status or a network error: null, so 'create'
        /\ loads' = loads - 1
        /\ creates' = creates + 1
        /\ UNCHANGED <<userAnswers, timeLeft, autosaveElapsed, localStorage, abandons,
                       restored>>
  /\ UNCHANGED <<config, phase, saves, submits, completes, drafts,
                 results, pendingSync, submitted, timeUps, timeUpTimers, completeSent, sinceSave, lastSave, hist>>
  /\ TimerEffect(TimerDepsChanged, timerActive, intervals)

\* The uniqueness constraint of test_attempts: UNIQUE(user_id, variant_id,
\* test_session_id). Rows are of one (user, variant) pair; sid is the new
\* row's session id.
UniqueOk(rows, sid) == \A i \in 1..Len(rows) : rows[i].sid /= sid

\* the session id a new row gets
FreshSid(rows) == Len(rows) + 1

\* POST /api/test-sessions inserts a draft row
InsertDraft(rows) ==
  Append(rows, [answers |-> NoAnswers, timeSpent |-> 0, sid |-> FreshSid(rows)])

\* manageTestSession('create') returns and loadProgress goes on.
CreateResponse ==
  /\ creates > 0
  /\ creates' = creates - 1
  /\ \/ \* the row is inserted and the new session comes back
        /\ Len(drafts) < MaxDrafts
        /\ UniqueOk(drafts, FreshSid(drafts))
        /\ drafts' = InsertDraft(drafts)
        /\ IF phase = "mounted"
             THEN /\ userAnswers' = NoAnswers
                  /\ timeLeft' = Budget
                  /\ autosaveElapsed' = 0
                  /\ Commit(TRUE, timeLeft, <<>>, loads, InFlight - 1)
             ELSE /\ localStorage' = <<>>
                  /\ UNCHANGED <<userAnswers, timeLeft, autosaveElapsed, loads,
                                 abandons>>
     \/ \* an error status or a network error: null, nothing is set
        /\ UNCHANGED <<userAnswers, timeLeft, autosaveElapsed, localStorage, loads,
                       abandons, drafts>>
  /\ UNCHANGED <<config, phase, saves, submits, completes, results,
                 pendingSync, submitted, timeUps, timeUpTimers, completeSent, restored, sinceSave, lastSave, hist>>
  /\ TimerEffect(TimerDepsChanged, timerActive, intervals)

\* POST /api/test-sessions/abandon is answered: the drafts of the pair are
\* marked abandoned, or the request fails
AbandonResponse ==
  /\ abandons > 0
  /\ abandons' = abandons - 1
  /\ \/ drafts' = <<>>
     \/ drafts' = drafts
  /\ UNCHANGED <<config, phase, timeLeft, userAnswers, timerActive, intervals, autosaveElapsed,
                 localStorage, loads, creates, saves, submits, completes, results,
                 pendingSync, submitted, timeUps, timeUpTimers, completeSent, restored, sinceSave, lastSave, hist>>

(* ------------------------------ autosave ------------------------------- *)

\* the body sent by manageTestSession('save'), from the closure of the render
\* that armed the interval
SaveRequest(answers, tl) == [answers |-> answers, timeSpent |-> TimeSpent(tl)]

\* The setInterval callback of the autosave effect, up to its await.
AutosaveTick ==
  /\ AutosaveDue
  /\ InFlight < MaxInFlight
  /\ saves' = Append(saves, SaveRequest(userAnswers, timeLeft))
  /\ autosaveElapsed' = 0
  /\ sinceSave' = 0
  /\ lastSave' = <<SaveRequest(userAnswers, timeLeft)>>
  /\ UNCHANGED <<config, phase, timeLeft, userAnswers, timerActive, intervals, localStorage,
                 loads, creates, abandons, submits, completes, drafts, results,
                 pendingSync, submitted, timeUps, timeUpTimers, completeSent, restored, hist>>

\* POST /api/test-sessions/save stores the body in the drafts of the pair
StoreDraft(rows, req) ==
  [i \in 1..Len(rows) |->
     [rows[i] EXCEPT !.answers = req.answers, !.timeSpent = req.timeSpent]]

\* manageTestSession('save') returns (true, false or, after an error, null)
\* and the callback writes the answers of its closure to the local item.
SaveResponse ==
  /\ \E i \in 1..Len(saves) :
       /\ saves' = RemoveAt(saves, i)
       /\ \/ drafts' = StoreDraft(drafts, saves[i])
          \/ drafts' = drafts
       /\ localStorage' = <<JSONstringify(saves[i].answers)>>
  /\ UNCHANGED <<config, phase, timeLeft, userAnswers, timerActive, intervals, autosaveElapsed,
                 loads, creates, abandons, submits, completes, results,
                 pendingSync, submitted, timeUps, timeUpTimers, completeSent, restored, sinceSave, lastSave, hist>>

(* ------------------------- submitTestMutation -------------------------- *)

\* offlineResult with the time spent left at its default
OfflineResultNoTime(sub) ==
  [answers |-> sub.answers, timeSpent |-> 0, syncStatus |-> "pending"]

\* offlineResult, the record handed to saveCompletedTest
OfflineResult(sub) ==
  [answers |-> sub.answers, timeSpent |-> sub.timeSpent, syncStatus |-> "pending"]

\* onSuccess up to its await: a signed-in learner on a private test sends
\* 'complete'; otherwise the local item is removed and the page navigates to
\* the results, which unmounts it.
OnSuccess ==
  IF authed /\ ~isPublicTest
    THEN /\ completes' = completes + 1
         /\ completeSent' = TRUE
         /\ UNCHANGED <<phase, timerActive, intervals, autosaveElapsed, abandons, localStorage>>
    ELSE /\ UNCHANGED <<completes, completeSent>>
         /\ IF phase = "mounted"
              THEN Unmount(<<>>, InFlight - 1)
              ELSE /\ localStorage' = <<>>
                   /\ UNCHANGED <<phase, timerActive, intervals, autosaveElapsed, abandons>>

\* onError: a toast, nothing else
OnError ==
  UNCHANGED <<phase, timerActive, intervals, autosaveElapsed, abandons, localStorage,
              completes, completeSent>>

\* what a mutationFn run came to: net is "ok" when the POST was answered with
\* the result, "rejected" when it was answered with an error status, which
\* apiRequest throws, and "failed" when the page was offline or no answer
\* came; outcome is "online" (the result was
\* returned), "offline" ({ offline: true } was returned) or "error" (thrown)
Settled(net, outcome) == [op |-> "submit", net |-> net, outcome |-> outcome]

\* the ways the try block of mutationFn throws
Failures == {"failed", "rejected"}

\* What a failed POST left on the server: nothing, or, for a signed-in learner
\* whose request arrived before the connection broke, the stored result.
FailedPost(net) ==
  \/ results' = results
  \/ net = "failed" /\ authed /\ ~isPublicTest /\ results' = Stored(results)

\* the catch rethrowing for visitors who are not signed in only
RethrowsForGuestsOnly == isPublicTest /\ ~authed

\* if (isPublicTest) throw error
Rethrows == isPublicTest

\* mutationFn goes on after its await.
SubmitResponse ==
  /\ \E i \in 1..Len(submits) :
       LET sub == submits[i]
       IN /\ submits' = RemoveAt(submits, i)
          /\ \/ \* syncStatus.isOnline, and the POST is answered with the result
                /\ isPublicTest \/ authed
                /\ results' = IF isPublicTest THEN results ELSE Stored(results)
                /\ pendingSync' = pendingSync
                /\ OnSuccess
                /\ hist' = Settled("ok", "online")
             \/ \* offline or the request failed, public test: the error is rethrown
                /\ Rethrows
                /\ OnError
                /\ UNCHANGED <<results, pendingSync>>
                /\ \E net \in Failures : hist' = Settled(net, "error")
             \/ \* offline or the request failed: saveCompletedTest stores the record
                /\ ~Rethrows
                /\ Len(pendingSync) < MaxPending
                /\ pendingSync' = Append(pendingSync, OfflineResult(sub))
                /\ OnSuccess
                /\ \E net \in Failures :
                     FailedPost(net) /\ hist' = Settled(net, "offline")
             \/ \* offline or the request failed, and saveCompletedTest throws
                /\ ~Rethrows
                /\ OnError
                /\ UNCHANGED pendingSync
                /\ \E net \in Failures :
                     FailedPost(net) /\ hist' = Settled(net, "error")
  /\ UNCHANGED <<config, timeLeft, userAnswers, loads, creates, saves, drafts,
                 submitted, timeUps, timeUpTimers, restored, sinceSave, lastSave>>

\* manageTestSession('complete') returns and onSuccess goes on: the local item
\* is removed and setLocation("/results") unmounts the page.
CompleteResponse ==
  /\ completes > 0
  /\ completes' = completes - 1
  /\ \/ drafts' = <<>>
     \/ drafts' = drafts
  /\ IF phase = "mounted"
       THEN Unmount(<<>>, InFlight - 1)
       ELSE /\ localStorage' = <<>>
            /\ UNCHANGED <<phase, timerActive, intervals, autosaveElapsed, abandons>>
  /\ UNCHANGED <<config, timeLeft, userAnswers, loads, creates, saves, submits,
                 results, pendingSync, submitted, timeUps, timeUpTimers, completeSent, restored, sinceSave, lastSave,
                 hist>>

(* --------------------------- storage calls ----------------------------- *)

Called(op, out) == [op |-> op, out |-> out]

StorageIdle ==
  UNCHANGED <<config, phase, timeLeft, userAnswers, timerActive, intervals,
              autosaveElapsed, localStorage, loads, creates, abandons, saves,
              submits, completes, drafts, pendingSync, submitted, timeUps, timeUpTimers,
              completeSent, restored, sinceSave, lastSave>>

createTestResultCall ==
  /\ Len(results) < MaxResults
  /\ \E insertResult \in InsertResults :
       /\ results' = createTestResult(results, insertResult)
       /\ hist' = Called("createTestResult", <<results'[Len(results')]>>)
  /\ StorageIdle

getTestResultCall ==
  /\ \E id \in 1..MaxResults :
       hist' = Called("getTestResult", getTestResult(results, id))
  /\ UNCHANGED results
  /\ StorageIdle

\* the read behind the progress and analytics pages
getTestResultsByUserCall ==
  /\ \E userId \in Users :
       hist' = Called("getTestResultsByUser", getTestResultsByUser(results, userId))
  /\ UNCHANGED results
  /\ StorageIdle

getUserRankingCall ==
  /\ \E userId \in Users :
       hist' = Called("getUserRanking", <<getUserRanking(results, userId)>>)
  /\ UNCHANGED results
  /\ StorageIdle

\* updateUserRanking computes the ranking and logs it; nothing is written
updateUserRankingCall ==
  /\ \E userId \in Users :
       hist' = Called("updateUserRanking", <<getUserRanking(results, userId)>>)
  /\ UNCHANGED results
  /\ StorageIdle

(* --------------------------- review rendering -------------------------- *)

\* userAnswers[question.id] as the renderers may find it: undefined, a single
\* id, or an array of ids
ReviewAnswers ==
  {[kind |-> "undefined", ids |-> <<>>]}
    \cup {[kind |-> "scalar", ids |-> <<a>>] : a \in AnswerIds}
    \cup {[kind |-> "array", ids |-> s] : s \in UNION {[1..n -> AnswerIds] : n \in 0..MaxShown}}

\* answer.isCorrect is optional
Flags == {"true", "false", "undefined"}

Truthy(flag) == flag = "true"

\* a renderer that takes arrays only
isSelectedArrayOnly(userAnswer, id) ==
  userAnswer.kind = "array" /\ Includes(userAnswer.ids, id)

\* Array.isArray(userAnswer) ? userAnswer.includes(answer.id) : userAnswer === answer.id
isSelected(userAnswer, id) ==
  IF userAnswer.kind = "array"
    THEN Includes(userAnswer.ids, id)
    ELSE userAnswer.kind = "scalar" /\ userAnswer.ids[1] = id

\* the review branch of answerStyle and the indicator of the desktop page
DesktopReview(userAnswer, id, flag) ==
  LET sel == isSelected(userAnswer, id)
  IN IF sel /\ Truthy(flag)
       THEN [style |-> "blue", mark |-> "blue-check"]
       ELSE IF sel /\ ~Truthy(flag)
              THEN [style |-> "red", mark |-> "red-cross"]
              ELSE IF ~sel /\ Truthy(flag)
                     THEN [style |-> "green", mark |-> "green-check"]
                     ELSE [style |-> "dimmed", mark |-> "none"]

\* the same two places of MobileTestNavigation
MobileReview(userAnswer, id, flag) ==
  LET sel == isSelected(userAnswer, id)
  IN IF sel /\ Truthy(flag)
       THEN [style |-> "blue", mark |-> "blue-check"]
       ELSE IF sel /\ ~Truthy(flag)
              THEN [style |-> "red", mark |-> "red-cross"]
              ELSE IF ~sel /\ Truthy(flag)
                     THEN [style |-> "green", mark |-> "green-check"]
                     ELSE [style |-> "dimmed", mark |-> "none"]

PageIdle == StorageIdle /\ UNCHANGED results

\* one answer button of the current question is rendered in review mode
RenderAnswer ==
  /\ isReviewMode
  /\ phase = "mounted"
  /\ \E userAnswer \in ReviewAnswers, id \in AnswerIds, flag \in Flags :
       hist' = [op |-> "render", userAnswer |-> userAnswer, id |-> id, flag |-> flag,
                desktop |-> DesktopReview(userAnswer, id, flag),
                mobile |-> MobileReview(userAnswer, id, flag)]
  /\ PageIdle

(* ------------------------- save and reload ----------------------------- *)

\* manageTestSession('save') with the state of the page, stored by the server
SaveNow ==
  /\ phase = "mounted"
  /\ SessionEnabled
  /\ drafts' = StoreDraft(drafts, SaveRequest(userAnswers, timeLeft))
  /\ hist' = [op |-> "saved", answers |-> userAnswers, timeLeft |-> timeLeft]
  /\ UNCHANGED <<config, phase, timeLeft, userAnswers, timerActive, intervals,
                 autosaveElapsed, localStorage, loads, creates, abandons, saves,
                 submits, completes, results, pendingSync, submitted, timeUps, timeUpTimers,
                 completeSent, restored, sinceSave, lastSave>>

\* The page is loaded again: its state starts from the defaults, 'load' hands
\* back the draft as JSON and loadProgress restores it.
Reload ==
  /\ hist.op = "saved"
  /\ \E session \in ActiveSessions :
       /\ userAnswers' = JSONparse(JSONstringify(session.answers))
       /\ timeLeft' = RestoredTimeLeft(session.timeSpent)
  /\ restored' = TRUE
  /\ hist' = [hist EXCEPT !.op = "reloaded"]
  /\ UNCHANGED <<config, phase, timerActive, intervals, autosaveElapsed,
                 localStorage, loads, creates, abandons, saves, submits,
                 completes, drafts, results, pendingSync, submitted, timeUps, timeUpTimers,
                 completeSent, sinceSave, lastSave>>

(* ------------------------------ scoring -------------------------------- *)

\* answers[question.id] of a submission as the server finds it: the page
\* stores an array under every key it sets, so a key holds an array and a
\* question without a key is undefined
Submitted(answers, q) ==
  IF q \in DOMAIN answers
    THEN [kind |-> "array", ids |-> answers[q]]
    ELSE [kind |-> "undefined", ids |-> <<>>]

\* the correct answer of the page's single-choice question
CorrectId == AnswerPool[1]

\* the Scoring Engine for a single-choice question: 1 for a single id that is
\* the correct one, 0 for an array or a missing answer
ScoreSingle(userAnswer, correct) ==
  IF userAnswer.kind = "scalar" /\ userAnswer.ids[1] = correct THEN 1 ELSE 0

(* ---------------------------- review payload -------------------------- *)

\* isCorrect of an answer in the content store
RealFlag(id) == IF id = CorrectId THEN "true" ELSE "false"

\* isCorrect of an answer in finalTestData, the payload the test was taken
\* with: the flag is stripped before submission
TakenFlag(id) == "undefined"

\* What a settled submission is: a guest result (the public endpoint), the
\* online result of a signed-in learner, or { offline: true }.
ResultKinds ==
  IF isPublicTest THEN {"guest"} ELSE {"online", "offline"}

\* isCorrect of an answer in the testData onSuccess hands to the review: for a
\* guest result every flag is set to false; otherwise the response's testData,
\* which carries the real flags, or finalTestData when the response has none.
ReviewFlag(kind, id) ==
  IF kind = "guest"
    THEN "false"
    ELSE IF kind = "online" THEN RealFlag(id) ELSE TakenFlag(id)

\* onSuccess builds the review payload and the review renders one answer of it
BuildReview ==
  /\ phase = "mounted"
  /\ ~isReviewMode
  /\ \E kind \in ResultKinds, id \in AnswerIds, userAnswer \in ReviewAnswers :
       hist' = [op |-> "review", kind |-> kind, id |-> id, userAnswer |-> userAnswer,
                flag |-> ReviewFlag(kind, id),
                shown |-> DesktopReview(userAnswer, id, ReviewFlag(kind, id)).style]
  /\ PageIdle

(* ------------------------------ sync pass ------------------------------ *)

\* The sync pass of the offline store replays one pending-sync record of a
\* signed-in learner: the server scores it and createTestResult inserts a row.
\* The record leaves the store when the answer arrives and stays pending, to
\* be replayed again, when the answer is lost.
Replay ==
  /\ authed
  /\ \E i \in 1..Len(pendingSync) :
       /\ results' = Stored(results)
       /\ \/ pendingSync' = RemoveAt(pendingSync, i)
          \/ pendingSync' = pendingSync
  /\ hist' = Did("replay")
  /\ UNCHANGED <<config, phase, timeLeft, userAnswers, timerActive, intervals,
                 autosaveElapsed, localStorage, loads, creates, abandons, saves,
                 submits, completes, drafts, submitted, timeUps, timeUpTimers, completeSent,
                 restored, sinceSave, lastSave>>

(* --------------------------- specifications ---------------------------- *)

Next ==
  \/ Mount
  \/ Tick(MaxTicks, FALSE)
  \/ handleTimeUp
  \/ Wait(FALSE)
  \/ ToggleAnswer(PageQuestionIds, PageAnswerIds, FALSE)
  \/ confirmSubmitTest
  \/ Leave
  \/ LoadResponse
  \/ CreateResponse
  \/ AbandonResponse
  \/ AutosaveTick
  \/ SaveResponse
  \/ SubmitResponse
  \/ CompleteResponse

Spec == Init /\ [][Next]_vars

\* Toggle runs: a guest on the test page, any sequence of clicks on the answer
\* buttons of every question.
InitToggle == Init /\ ~authed /\ ~isReviewMode /\ localStorage = <<>> /\ drafts = <<>>

NextToggle ==
  \/ Mount
  \/ ToggleAnswer(QuestionIds, AnswerIds, TRUE)

SpecToggle == InitToggle /\ [][NextToggle]_vars

\* Autosave runs: a signed-in learner on a private test; the seconds since
\* the last 'save' request are counted.
InitAutosave == Init /\ authed /\ ~isReviewMode /\ ~isPublicTest

NextAutosave ==
  \/ Mount
  \/ Tick(WindowTicks, TRUE)
  \/ handleTimeUp
  \/ Wait(TRUE)
  \/ LoadResponse
  \/ CreateResponse
  \/ AbandonResponse
  \/ AutosaveTick
  \/ SaveResponse

SpecAutosave == InitAutosave /\ [][NextAutosave]_vars

\* the answer ids of a single-choice question: a question with exactly 5
\* answers
SingleChoiceAnswerIds == {"a1", "a2", "a3", "a4", "a5"}

\* Single-choice runs: a guest on the test page, any sequence of clicks on the
\* answer buttons of a single-choice question.
NextSingle ==
  \/ Mount
  \/ ToggleAnswer(PageQuestionIds, SingleChoiceAnswerIds, TRUE)

SpecSingle == InitToggle /\ [][NextSingle]_vars

\* Countdown runs: the page without the learner's submit and without the
\* autosave interval.
NextCountdown ==
  \/ Mount
  \/ Tick(MaxTicks, FALSE)
  \/ handleTimeUp
  \/ ToggleAnswer(PageQuestionIds, PageAnswerIds, FALSE)
  \/ Leave
  \/ LoadResponse
  \/ CreateResponse
  \/ AbandonResponse
  \/ SubmitResponse
  \/ CompleteResponse

SpecCountdown == Init /\ [][NextCountdown]_vars

\* Submission runs: the learner submits the answers the page starts with or
\* restores; no answer is toggled and the autosave interval is left out.
NextSubmit ==
  \/ Mount
  \/ Tick(MaxTicks, FALSE)
  \/ handleTimeUp
  \/ confirmSubmitTest
  \/ Leave
  \/ LoadResponse
  \/ CreateResponse
  \/ AbandonResponse
  \/ SubmitResponse
  \/ CompleteResponse

SpecSubmit == Init /\ [][NextSubmit]_vars

\* Sync runs: the submission runs together with the sync pass.
NextSync ==
  \/ NextSubmit
  \/ Replay

SpecSync == Init /\ [][NextSync]_vars

\* Storage runs: the calls on the result store, the page idle.
InitStorage ==
  Init /\ authed /\ ~isPublicTest /\ ~isReviewMode /\ localStorage = <<>> /\ drafts = <<>>

NextStorage ==
  \/ createTestResultCall
  \/ getTestResultCall
  \/ getTestResultsByUserCall
  \/ getUserRankingCall
  \/ updateUserRankingCall

SpecStorage == InitStorage /\ [][NextStorage]_vars

\* the key of the local item: `test_${variantId}_answers`
LocalKey(variantId, userId) == <<"test", variantId, "answers">>

\* Shared-browser runs: a signed-in learner opens the variant in a browser
\* where another learner's session left its answers in the local cache.
InitShared ==
  Init /\ authed /\ ~isReviewMode /\ localStorage = <<JSONstringify(SavedAnswers)>>

SpecShared == InitShared /\ [][Next]_vars

\* Review runs: the page opened in review mode, its answer buttons rendered.
InitReview ==
  Init /\ isReviewMode /\ authed /\ ~isPublicTest /\ localStorage = <<>> /\ drafts = <<>>

NextReview ==
  \/ Mount
  \/ RenderAnswer

SpecReview == InitReview /\ [][NextReview]_vars

\* the answers maps of the page's question
RoundTripAnswers ==
  {NoAnswers} \cup
    {[q \in PageQuestionIds |-> s] :
       s \in {t \in UNION {[1..n -> PageAnswerIds] : n \in 0..PageAnswers} :
                \A i, j \in DOMAIN t : i /= j => t[i] /= t[j]}}

\* Round-trip runs: a signed-in learner's page with a draft row, at any point
\* of the countdown and with any answers, saved and then loaded again.
InitRoundTrip ==
  /\ authed = TRUE /\ isPublicTest = FALSE /\ isReviewMode = FALSE
  /\ phase = "mounted"
  /\ timeLeft \in 0..Budget
  /\ userAnswers \in RoundTripAnswers
  /\ timerActive = TRUE /\ intervals = 1
  /\ autosaveElapsed = 0
  /\ localStorage = <<>>
  /\ loads = 0 /\ creates = 0 /\ abandons = 0 /\ completes = 0
  /\ saves = <<>> /\ submits = <<>>
  /\ drafts = InsertDraft(<<>>)
  /\ results = <<>> /\ pendingSync = <<>>
  /\ submitted = 0 /\ timeUps = 0 /\ timeUpTimers = <<>>
  /\ completeSent = FALSE /\ restored = FALSE
  /\ sinceSave = 0 /\ lastSave = <<>>
  /\ hist = Did("")

NextRoundTrip ==
  \/ SaveNow
  \/ Reload

SpecRoundTrip == InitRoundTrip /\ [][NextRoundTrip]_vars

\* Scoring runs: a guest answers the single-choice question and submits,
\* one submission at a time.
NextScore ==
  \/ Mount
  \/ ToggleAnswer(PageQuestionIds, SingleChoiceAnswerIds, FALSE)
  \/ submits = <<>> /\ confirmSubmitTest
  \/ SubmitResponse

SpecScore == InitToggle /\ [][NextScore]_vars

\* Payload runs: a test is taken and the review payload of its result built.
InitPayload == Init /\ ~isReviewMode /\ localStorage = <<>> /\ drafts = <<>>

NextPayload ==
  \/ Mount
  \/ BuildReview

SpecPayload == InitPayload /\ [][NextPayload]_vars

\* Guest runs: a visitor who is not signed in takes the test. The session
\* responses are left out: they need a request in flight, and a guest has none.
InitGuest == Init /\ ~authed /\ drafts = <<>>

NextGuest ==
  \/ Mount
  \/ Tick(MaxTicks, FALSE)
  \/ ToggleAnswer(PageQuestionIds, PageAnswerIds, FALSE)
  \/ submits = <<>> /\ confirmSubmitTest
  \/ Leave
  \/ SubmitResponse

SpecGuest == InitGuest /\ [][NextGuest]_vars

(* ------------------------------- claims -------------------------------- *)

\* a step of the countdown or a click on an answer button
TickOrToggle ==
  \/ Tick(MaxTicks, FALSE)
  \/ ToggleAnswer(PageQuestionIds, PageAnswerIds, FALSE)

\* C1: whatever the interleaving of confirmSubmitTest, a repeated confirm and
\* the time-up submit, at most one submission is issued for the attempt, so
\* at most one result (stored or pending sync) is produced.
C1_ExactlyOnce ==
  /\ submitted <= 1
  /\ Len(results) + Len(pendingSync) <= 1

\* C2: once a 'complete' request has been sent, no step issues an 'abandon'
\* request, the unmount that navigates to the results included.
C2_NoAbandonAfterComplete == [][completeSent => abandons' <= abandons]_vars

\* C3: while the page stays mounted, no countdown tick and no answer toggle
\* sends an 'abandon' request or clears the local draft cache.
C3_OnlyUnmountAbandons ==
  [][TickOrToggle => (abandons' = abandons /\ localStorage' = localStorage)]_vars

\* C4: while a signed-in learner's page stays mounted with the countdown
\* ticking, no more than 30 seconds pass without a 'save' request.
C4_AutosaveEvery30 ==
  (phase = "mounted" /\ SessionEnabled /\ timerActive) => sinceSave <= 30

\* C5: when an autosave tick ends on a mounted page, whatever the server
\* answered, the local cache holds the learner's current answers.
C5_AutosaveKeepsInput ==
  [][(phase = "mounted" /\ Len(saves') < Len(saves))
       => localStorage' = <<JSONstringify(userAnswers')>>]_vars

\* C6: after the first load of a mounted page, no countdown tick and no answer
\* toggle causes another 'load' or 'create' request.
C6_LoadOncePerMount ==
  [][TickOrToggle => (loads' = loads /\ creates' = creates)]_vars

\* C7: once a draft has been restored, the countdown of the mounted page only
\* decreases: it is never set back to the resumed value or to the full budget.
C7_RestoreNeverResets ==
  [][(restored /\ phase = "mounted" /\ phase' = "mounted") => timeLeft' <= timeLeft]_vars

\* C8: the session store never holds two draft rows for the (user, variant)
\* pair.
C8_OneActiveDraft == Len(drafts) <= 1

\* the ids selected for question q in the answers map m
Selected(m, q) == IF q \in DOMAIN m THEN {m[q][i] : i \in 1..Len(m[q])} ELSE {}

\* the last step was a click on answer hist.a of question hist.q
Toggled == hist.op = "toggle"

\* C9: after any sequence of toggles every question's selection holds at most
\* 3 distinct answer ids, and toggling a new id when 3 are already selected
\* leaves the whole answers map unchanged.
C9_SelectionCap ==
  /\ \A q \in DOMAIN userAnswers :
       /\ Len(userAnswers[q]) <= 3
       /\ Cardinality(Selected(userAnswers, q)) <= 3
  /\ (Toggled /\ Cardinality(Selected(hist.prev, hist.q)) = 3
              /\ hist.a \notin Selected(hist.prev, hist.q))
       => userAnswers = hist.prev

\* a 4th id was toggled on a question that holds 3
C9_Witness ==
  /\ Toggled
  /\ Cardinality(Selected(hist.prev, hist.q)) = 3
  /\ hist.a \notin Selected(hist.prev, hist.q)
  /\ \E k \in DOMAIN userAnswers : k /= hist.q /\ userAnswers[k] /= <<>>

\* C10: a toggle of a on q removes a from q's selection when it is selected
\* and adds it otherwise (unless 3 are selected), no selection ever holds an
\* id twice, and the selections of every other question stay as they were.
C10_ToggleSemantics ==
  /\ \A k \in DOMAIN userAnswers :
       Cardinality(Selected(userAnswers, k)) = Len(userAnswers[k])
  /\ Toggled =>
       LET old == Selected(hist.prev, hist.q)
           new == Selected(userAnswers, hist.q)
       IN /\ hist.a \in old => new = old \ {hist.a}
          /\ (hist.a \notin old /\ Cardinality(old) < 3) => new = old \cup {hist.a}
          /\ (hist.a \notin old /\ Cardinality(old) >= 3) => new = old
          /\ \A k \in (DOMAIN userAnswers \cup DOMAIN hist.prev) \ {hist.q} :
               /\ k \in DOMAIN userAnswers
               /\ k \in DOMAIN hist.prev
               /\ userAnswers[k] = hist.prev[k]

\* an id was removed from a question that held two, while another question
\* holds a selection
C10_Witness ==
  /\ Toggled
  /\ hist.a \in Selected(hist.prev, hist.q)
  /\ Cardinality(Selected(hist.prev, hist.q)) = 2
  /\ \E k \in DOMAIN userAnswers : k /= hist.q /\ Len(userAnswers[k]) = 2

\* C11: for a single-choice question at most one answer id is held after any
\* sequence of toggles, and a newly chosen id replaces the one held before.
C11_SingleSelect ==
  /\ \A q \in DOMAIN userAnswers : Len(userAnswers[q]) <= 1
  /\ (Toggled /\ hist.a \notin Selected(hist.prev, hist.q))
       => userAnswers[hist.q] = <<hist.a>>

\* C12: the countdown is started exactly once per mounted non-review session:
\* there is never a second live interval, the one interval stays live through
\* every re-render until time is up, and review mode starts none.
C12_SingleCountdown ==
  /\ intervals <= 1
  /\ (intervals = 1) = timerActive
  /\ (phase = "mounted" /\ ~isReviewMode /\ timeUps = 0) => intervals = 1
  /\ isReviewMode => intervals = 0

\* a restored page whose countdown is still running after re-renders
C12_Witness ==
  /\ phase = "mounted"
  /\ restored
  /\ timeLeft < Budget
  /\ intervals = 1

\* C13: a countdown tick takes timeLeft down by exactly 1 when it is above 1
\* and to 0 otherwise; timeLeft is never negative, so no submission, sent or
\* stored for sync, carries a timeSpent above 14400.
C13_TickSemantics ==
  /\ [](/\ timeLeft >= 0
        /\ \A i \in 1..Len(submits) : submits[i].timeSpent <= 14400
        /\ \A i \in 1..Len(pendingSync) : pendingSync[i].timeSpent <= 14400)
  /\ [][Tick(MaxTicks, FALSE)
         => timeLeft' = (IF timeLeft > 1 THEN timeLeft - 1 ELSE 0)]_vars

\* the countdown has ticked down to zero and the time-up submission carries
\* the whole budget
C13_Witness ==
  /\ timeLeft = 0
  /\ timeUps > 0
  /\ \E i \in 1..Len(submits) : submits[i].timeSpent = 14400

\* C14: handleTimeUp is invoked at most once, whatever ticks, re-renders and
\* repeated evaluations of the updater follow, and the tick that invokes it
\* stops the interval.
C14_TimeUpOnce ==
  /\ timeUps <= 1
  /\ timeUps = 1 => (~timerActive /\ intervals = 0)

\* time ran out and the page was rendered again with time on the clock
C14_Witness ==
  /\ timeUps = 1
  /\ phase = "mounted"
  /\ timeLeft > 0

\* the record the step added to the pending-sync store is the submission that
\* settled: its answers and its timeSpent, marked pending
QueuedIsTheSubmission ==
  \E i \in 1..Len(submits) :
    /\ submits' = RemoveAt(submits, i)
    /\ pendingSync' = Append(pendingSync,
         [answers |-> submits[i].answers, timeSpent |-> submits[i].timeSpent,
          syncStatus |-> "pending"])

\* C15 as stated: for a signed-in learner a pending-sync record is stored if
\* and only if the network submission did not succeed; the record carries the
\* answers and timeSpent of the submission, and the outcome is then the
\* offline one, never the online one.
C15_QueuedIffNetworkFailed ==
  [][(authed /\ Len(submits') < Len(submits)) =>
       /\ (Len(pendingSync') > Len(pendingSync)) = (hist'.net \in Failures)
       /\ (Len(pendingSync') > Len(pendingSync)) = (hist'.outcome = "offline")
       /\ Len(pendingSync') > Len(pendingSync) => QueuedIsTheSubmission]_vars

\* C15 amended: for a signed-in learner on a private test a pending-sync
\* record is stored only when the network submission did not succeed; when it
\* did not succeed, either the record is stored, carrying the answers and
\* timeSpent of the submission, and the outcome is the offline one, or the
\* local store failed and the outcome is the error.
C15_QueuedOnlyIfNetworkFailed ==
  [][(authed /\ ~isPublicTest /\ Len(submits') < Len(submits)) =>
       /\ Len(pendingSync') > Len(pendingSync) => hist'.net \in Failures
       /\ hist'.net \in Failures => hist'.outcome \in {"offline", "error"}
       /\ hist'.net = "ok" => hist'.outcome = "online"
       /\ (Len(pendingSync') > Len(pendingSync)) = (hist'.outcome = "offline")
       /\ Len(pendingSync') > Len(pendingSync) => QueuedIsTheSubmission]_vars

\* a signed-in learner's submission with time spent and answers was queued
C15_Witness ==
  /\ authed /\ ~isPublicTest
  /\ hist.op = "submit" /\ hist.outcome = "offline"
  /\ \E i \in 1..Len(pendingSync) :
       pendingSync[i].timeSpent > 0 /\ pendingSync[i].answers /= NoAnswers

\* C16: on a public test nothing is ever queued for sync, and a submission
\* whose request failed ends in the error outcome: the page stays as it was,
\* no 'complete' is sent and the local item is kept.
C16_PublicNeverQueued ==
  [][isPublicTest =>
       /\ pendingSync' = <<>>
       /\ (Len(submits') < Len(submits) /\ hist'.net \in Failures) =>
            /\ hist'.outcome = "error"
            /\ phase' = phase
            /\ completes' = completes
            /\ localStorage' = localStorage]_vars

\* a signed-in learner's submission on a public test failed and was not queued
C16_Witness ==
  /\ isPublicTest /\ authed
  /\ phase = "mounted"
  /\ hist.op = "submit" /\ hist.net = "failed" /\ hist.outcome = "error"
  /\ pendingSync = <<>>

\* C17: however often the pending-sync record of the one submission of an
\* attempt is replayed, and whether or not the original request reached the
\* server, one TestResult is stored for it, never two.
C17_ReplayIdempotent == submitted <= 1 => Len(results) <= 1

\* C18: when the server answers a signed-in learner's submission on a private
\* test with an error status, the page reports a submission error and keeps
\* the draft: the answers in memory and the local item stay as they were, no
\* 'complete' is sent and the page stays open for another try.
C18_RejectedKeepsDraft ==
  [][(authed /\ ~isPublicTest /\ Len(submits') < Len(submits)
        /\ hist'.net = "rejected") =>
       /\ hist'.outcome = "error"
       /\ userAnswers' = userAnswers
       /\ localStorage' = localStorage
       /\ completes' = completes
       /\ completeSent' = completeSent
       /\ phase' = phase]_vars

\* C19: stored TestResults are immutable: every step of the result store keeps
\* each row it holds, field for field and in place; createTestResult only adds
\* a row, and the reads and the ranking update change nothing.
C19_ResultsImmutable ==
  [][/\ Len(results') >= Len(results)
     /\ \A i \in 1..Len(results) : results'[i] = results[i]
     /\ hist'.op /= "createTestResult" => results' = results]_vars

\* a learner has two results stored and the ranking was updated after them
C19_Witness ==
  /\ Len(results) = 2
  /\ results[1].userId = results[2].userId
  /\ results[1].score /= results[2].score
  /\ hist.op = "updateUserRanking"

\* the answers and timeSpent a draft row holds, as a 'save' body
DraftBody(row) == [answers |-> row.answers, timeSpent |-> row.timeSpent]

C21_CacheKeyedByUser ==
  LocalKey("v1", "u1") = LocalKey("v1", "u2")
    => localStorage = <<JSONstringify(SavedAnswers)>>

\* C22: in review every answer gets exactly one of the four states, fixed by
\* (selected, isCorrect) alone, where selected means the id is the learner's
\* single answer or a member of the learner's array: selected and correct,
\* selected and incorrect, unselected but correct, unselected and incorrect;
\* the desktop and the mobile renderer agree.
C22_FourStates ==
  hist.op = "render" =>
    LET ua == hist.userAnswer
        selected == ua.kind /= "undefined" /\ hist.id \in {ua.ids[i] : i \in 1..Len(ua.ids)}
        correct == hist.flag = "true"
        state == IF selected
                   THEN IF correct THEN "blue" ELSE "red"
                   ELSE IF correct THEN "green" ELSE "dimmed"
    IN /\ hist.desktop.style = state
       /\ hist.mobile = hist.desktop
       /\ hist.desktop.mark =
            (CASE state = "blue" -> "blue-check" [] state = "red" -> "red-cross"
               [] state = "green" -> "green-check" [] OTHER -> "none")

\* a single (scalar) answer that was selected and is correct was rendered
C22_Witness ==
  /\ hist.op = "render"
  /\ hist.userAnswer.kind = "scalar" /\ hist.userAnswer.ids[1] = hist.id
  /\ hist.flag = "true"
  /\ hist.mobile.style = "blue"

C24_SingleChoiceScore ==
  \A i \in 1..Len(submits) : \A q \in PageQuestionIds :
    LET sel == Selected(submits[i].answers, q)
        earned == ScoreSingle(Submitted(submits[i].answers, q), CorrectId)
    IN /\ sel = {CorrectId} => earned = 1
       /\ (Cardinality(sel) <= 1 /\ sel /= {CorrectId}) => earned = 0

\* C25: in every review payload, a signed-in learner's or a guest's, the
\* isCorrect flag of each answer is the answer's real correctness, so a
\* selected answer that is correct is shown as selected and correct.
C25_ReviewFlagsReal ==
  hist.op = "review" =>
    /\ hist.flag = RealFlag(hist.id)
    /\ (isSelected(hist.userAnswer, hist.id) /\ RealFlag(hist.id) = "true")
         => hist.shown = "blue"

\* C26: after the page has unmounted neither interval is live and nothing
\* happens for the unmounted session: no tick changes timeLeft, no 'save'
\* request is issued and no time-up submission is started.
C26_QuietAfterUnmount ==
  /\ [](phase = "unmounted" => (~timerActive /\ intervals = 0 /\ autosaveElapsed = 0))
  /\ [][phase = "unmounted" =>
          /\ timeLeft' = timeLeft
          /\ Len(saves') <= Len(saves)
          /\ submitted' = submitted
          /\ Len(submits') <= Len(submits)]_vars

\* C27: when loading the session fails on a mounted page (the 'create' that
\* follows a 'load' without a draft comes back with an error) and the local
\* cache holds answers, the cached answers are restored into the page.
C27_LocalFallback ==
  [][(/\ phase = "mounted"
      /\ creates' < creates /\ drafts' = drafts
      /\ localStorage /= <<>>)
       => userAnswers' = JSONparse(localStorage[1])]_vars

\* C28: on a mounted page on which the initial load has restored the draft,
\* the answers and timeLeft change only by the learner's toggles and the
\* countdown ticks: no other step, a server response in particular, resets
\* them.
C28_OnlyLearnerAndClock ==
  [][(phase = "mounted" /\ restored /\ ~TickOrToggle)
       => (userAnswers' = userAnswers /\ timeLeft' = timeLeft)]_vars

\* C29: for a guest no session request is ever issued (no load, create, save,
\* complete or abandon), the autosave interval is never armed and no item is
\* written to the local cache, on a public test as on any other.
C29_GuestNoSession ==
  /\ [](~authed =>
          /\ loads = 0 /\ creates = 0 /\ abandons = 0 /\ completes = 0
          /\ saves = <<>> /\ lastSave = <<>>
          /\ ~completeSent
          /\ ~AutosaveArmed)
  /\ [][~authed => localStorage' \in {localStorage, <<>>}]_vars

\* a guest's public test ran for a while with an answer selected and its
\* submission was answered
C29_Witness ==
  /\ ~authed /\ isPublicTest
  /\ timeLeft < Budget
  /\ userAnswers /= NoAnswers
  /\ hist.op = "submit" /\ hist.outcome = "online"
  /\ phase = "unmounted"

\* C30: review mode is read-only: no step changes the answers shown or
\* timeLeft, the countdown and the autosave interval are never started, and no
\* session request, submission or abandon is ever issued.
C30_ReviewReadOnly ==
  /\ [](isReviewMode =>
          /\ ~timerActive /\ intervals = 0
          /\ ~AutosaveArmed /\ autosaveElapsed = 0
          /\ loads = 0 /\ creates = 0 /\ abandons = 0 /\ completes = 0
          /\ saves = <<>> /\ submits = <<>> /\ timeUpTimers = <<>>
          /\ submitted = 0 /\ ~completeSent)
  /\ [][isReviewMode => (userAnswers' = userAnswers /\ timeLeft' = timeLeft)]_vars

\* a signed-in learner's review page, opened with answers and closed again,
\* with the cached item of the test still in place
C30_Witness ==
  /\ isReviewMode /\ authed
  /\ phase = "unmounted"
  /\ userAnswers /= NoAnswers
  /\ timeLeft = Budget
  /\ localStorage /= <<>>

====
